---- MODULE Spec2Model ----
(***************************************************************************)
(* Model of the economic_viability engine: the three item schedules        *)
(* (CapexManager, OpexManager, ReceitasManager), the tax/discount Config   *)
(* and the cash-flow assembly of FinancialCalculations.                    *)
(*                                                                         *)
(* Numbers.  The program computes in Python floats; the model computes in  *)
(* exact integers.  Quantities and prices are integers.  Amounts that can  *)
(* carry a growth factor or a tax fraction are held as integer multiples   *)
(* of 1/Scale; over the domains below every such product is exact, so no   *)
(* rounding is introduced by the model.                                    *)
(***************************************************************************)
EXTENDS Integers, Sequences, FiniteSets, TLC

VARIABLES capex_manager, opex_manager, receitas_manager, config, results, ret,
          subject, cash_flows, numpy, pass

vars == <<capex_manager, opex_manager, receitas_manager, config, results, ret,
          subject, cash_flows, numpy, pass>>

\* cash_flows is the list a caller hands to an indicator method of
\* FinancialCalculations (empty while no such call is made), or the list a
\* pass of calculate_cash_flows is building
\* numpy is the numpy the program is installed with; no call changes it
\* pass is the position of a pass of calculate_cash_flows over the schedules

\* what a call on one object leaves alone
NotCapex == <<opex_manager, receitas_manager, config, results, subject, cash_flows, numpy>>
NotOpex == <<capex_manager, receitas_manager, config, results, subject, cash_flows, numpy>>
NotReceitas == <<capex_manager, opex_manager, config, results, subject, cash_flows, numpy>>
NotConfig == <<capex_manager, opex_manager, receitas_manager, results, subject, cash_flows, numpy>>

(***************************************************************************)
(* Bounds and argument encodings                                           *)
(***************************************************************************)
\* the largest quantity a caller passes
MaxQuantity == 2
\* the largest number of optional fields one update_item call supplies
MaxSupplied == 2

\* the tags a caller can supply, and the values uuid4()[:8] can produce
Tags == {"ITEM_a", "ITEM_b"}
NoTag == ""

\* an argument of a call: a number, a value float()/int() cannot convert, or None
Num(n) == [k |-> "num", v |-> n]
Bad == [k |-> "bad", v |-> 0]
None == [k |-> "none", v |-> 0]

\* a description argument: a string (sequence of characters), or None
Str(s) == [k |-> "str", s |-> s]
NoneStr == [k |-> "none", s |-> <<>>]

\* a recurrent argument: a boolean, or None
Bool(b) == [k |-> "bool", b |-> b]
NoneBool == [k |-> "none", b |-> FALSE]

\* the number of arguments of a call that are not None
Supplied(args) == Cardinality({i \in DOMAIN args : args[i].k # "none"})

\* amounts (prices, values, totals, cash flows) are integer multiples of 1/Scale
Scale == 2^12

Max(a, b) == IF a >= b THEN a ELSE b
Min(a, b) == IF a <= b THEN a ELSE b

(***************************************************************************)
(* base_item.py                                                            *)
(***************************************************************************)
\* float(x), int(x): defined on numbers, raise on anything else
Converts(a) == a.k = "num"
ToFloat(a) == a.v
ToInt(a) == a.v

IsSpace(c) == c = " "

RECURSIVE LStrip(_)
LStrip(s) == IF s # <<>> /\ IsSpace(Head(s)) THEN LStrip(Tail(s)) ELSE s

RECURSIVE RStrip(_)
RStrip(s) ==
  IF s # <<>> /\ IsSpace(s[Len(s)]) THEN RStrip(SubSeq(s, 1, Len(s) - 1)) ELSE s

\* str.strip()
Strip(s) == RStrip(LStrip(s))

\* BaseFinancialItem.total_value, in units of 1/Scale
total_value(item) == item.quantity * item.unit_price * Scale

RECURSIVE GCD(_, _)
GCD(a, b) == IF b = 0 THEN a ELSE GCD(b, a % b)

\* x * n / d for n >= 0, d > 0: the fraction is reduced first, and the division
\* is exact for every amount the domains of this model produce
MulDiv(x, n, d) ==
  LET g == GCD(n, d) IN (x * (n \div g)) \div (d \div g)

Result(ok, msg) == [ok |-> ok, msg |-> msg]

\* what the last call returned: (success, message) and, for a calculation, its value
Ret(op, r) == [op |-> op, ok |-> r.ok, msg |-> r.msg, value |-> <<>>]

\* BaseFinancialItem.validate
validate(item) ==
  IF item.tag = NoTag THEN Result(FALSE, "TAG nao pode estar vazio")
  ELSE IF Strip(item.description) = <<>>
    THEN Result(FALSE, "Descricao nao pode estar vazia")
  ELSE IF item.quantity < 0
    THEN Result(FALSE, "Quantidade nao pode ser negativa")
  ELSE IF item.unit_price < 0
    THEN Result(FALSE, "Valor unitario nao pode ser negativo")
  ELSE Result(TRUE, "")

\* BaseFinancialItem.update: the fields are assigned in order; a failing
\* float() raises after the earlier assignments have been made.
\* Returns the item as left behind and whether the call raised.
BaseUpdate(item, description, quantity, unit_price) ==
  LET i1 == IF description.k # "none"
              THEN [item EXCEPT !.description = description.s] ELSE item
      r2 == quantity.k = "bad"
      i2 == IF quantity.k = "num"
              THEN [i1 EXCEPT !.quantity = ToFloat(quantity)] ELSE i1
      r3 == ~r2 /\ unit_price.k = "bad"
      i3 == IF ~r2 /\ unit_price.k = "num"
              THEN [i2 EXCEPT !.unit_price = ToFloat(unit_price)] ELSE i2
  IN [item |-> i3, raised |-> r2 \/ r3]

\* BaseFinancialItem.to_dict, the two timestamps left out
BaseFinancialItem_to_dict(item) ==
  [tag |-> item.tag, description |-> item.description, quantity |-> item.quantity,
   unit_price |-> item.unit_price, total_value |-> total_value(item)]

\* data.get(key, default)
Get(data, key, default) == IF key \in DOMAIN data THEN data[key] ELSE default

\* the four arguments BaseFinancialItem.from_dict hands to cls(...); __init__
\* generates a tag when the one in data is None or empty
BaseArgs(data, generated) ==
  [tag |-> IF Get(data, "tag", NoTag) # NoTag THEN data.tag ELSE generated,
   description |-> Get(data, "description", <<>>),
   quantity |-> Num(Get(data, "quantity", 0)),
   unit_price |-> Num(Get(data, "unit_price", 0))]

RECURSIVE Sum(_, _)
\* sum(...) of the values a generator yields: f[x] for x in S
Sum(f, S) ==
  IF S = {} THEN 0
  ELSE LET x == CHOOSE y \in S : TRUE
       IN f[x] + Sum(f, S \ {x})

(***************************************************************************)
(* capex.py                                                                *)
(***************************************************************************)
\* CapExItem.__init__ storing int(month) as given, without the clamp
CapExItem_unclamped(tag, description, quantity, unit_price, month) ==
  [tag |-> tag, description |-> description,
   quantity |-> ToFloat(quantity), unit_price |-> ToFloat(unit_price),
   month |-> ToInt(month)]

\* CapExItem.__init__ (all arguments convertible)
CapExItem(tag, description, quantity, unit_price, month) ==
  [tag |-> tag, description |-> description,
   quantity |-> ToFloat(quantity), unit_price |-> ToFloat(unit_price),
   month |-> Max(1, Min(12, ToInt(month)))]

\* CapExItem.to_dict
CapExItem_to_dict(item) ==
  [month |-> item.month] @@ BaseFinancialItem_to_dict(item)

\* CapExItem.from_dict: cls(...) with the default month, then the assignment
CapExItem_from_dict(data, generated) ==
  LET a == BaseArgs(data, generated)
      item == CapExItem(a.tag, a.description, a.quantity, a.unit_price, Num(1))
  IN [item EXCEPT !.month = Get(data, "month", 1)]

\* CapexManager._update_total
CapexManager_update_total(items) ==
  Sum([t \in DOMAIN items |-> total_value(items[t])], DOMAIN items)

Out(manager, op, r) == [manager |-> manager, ret |-> Ret(op, r)]

\* a removal that drops the whole map
Remove_all(items, tag) == [t \in {} |-> items[t]]

\* del self.items[tag]
Remove(items, tag) == [t \in DOMAIN items \ {tag} |-> items[t]]

\* add_item without the test for an existing tag: the new item takes its place
CapexManager_add_item_overwrite(manager, description, quantity, unit_price, month, tag, generated) ==
  LET t == IF tag # NoTag THEN tag ELSE generated
      raised == ~(Converts(quantity) /\ Converts(unit_price) /\ Converts(month))
      item == CapExItem(t, description, quantity, unit_price, month)
      items == (t :> item) @@ manager.items
  IN IF raised
       THEN Out(manager, "capex.add_item", Result(FALSE, "Erro ao adicionar item"))
     ELSE IF ~validate(item).ok
       THEN Out(manager, "capex.add_item", validate(item))
     ELSE Out([items |-> items,
               total_investment |-> CapexManager_update_total(items)],
              "capex.add_item", Result(TRUE, "Item adicionado com sucesso"))

\* CapexManager.add_item: the manager it leaves and what it returns;
\* generated is the tag uuid4 yields when the caller gives none
CapexManager_add_item(manager, description, quantity, unit_price, month, tag, generated) ==
  LET t == IF tag # NoTag THEN tag ELSE generated
      raised == ~(Converts(quantity) /\ Converts(unit_price) /\ Converts(month))
      item == CapExItem(t, description, quantity, unit_price, month)
      items == (t :> item) @@ manager.items
  IN IF raised
       THEN Out(manager, "capex.add_item", Result(FALSE, "Erro ao adicionar item"))
     ELSE IF ~validate(item).ok
       THEN Out(manager, "capex.add_item", validate(item))
     ELSE IF t \in DOMAIN manager.items
       THEN Out(manager, "capex.add_item", Result(FALSE, "TAG ja existe"))
     ELSE Out([items |-> items,
               total_investment |-> CapexManager_update_total(items)],
              "capex.add_item", Result(TRUE, "Item adicionado com sucesso"))

\* the assignments of CapexManager.update_item to the item, in order; a failing
\* float() or int() raises after the earlier assignments have been made
CapexUpdateFields(item, description, quantity, unit_price, month) ==
  LET u == BaseUpdate(item, description, quantity, unit_price)
      r4 == ~u.raised /\ month.k = "bad"
      i4 == IF ~u.raised /\ month.k = "num"
              THEN [u.item EXCEPT !.month = Max(1, Min(12, ToInt(month)))]
              ELSE u.item
  IN [item |-> i4, raised |-> u.raised \/ r4]

\* CapexManager.update_item
CapexManager_update_item(manager, tag, description, quantity, unit_price, month) ==
  IF tag \notin DOMAIN manager.items
    THEN Out(manager, "capex.update_item", Result(FALSE, "Item nao encontrado"))
  ELSE
    LET u == CapexUpdateFields(manager.items[tag], description, quantity,
                               unit_price, month)
        items == [manager.items EXCEPT ![tag] = u.item]
    IN IF u.raised
         THEN Out([manager EXCEPT !.items = items],
                  "capex.update_item", Result(FALSE, "Erro ao atualizar item"))
       ELSE IF ~validate(u.item).ok
         THEN Out([manager EXCEPT !.items = items],
                  "capex.update_item", validate(u.item))
       ELSE Out([items |-> items,
                 total_investment |-> CapexManager_update_total(items)],
                "capex.update_item", Result(TRUE, "Item atualizado com sucesso"))

\* CapexManager.delete_item
CapexManager_delete_item(manager, tag) ==
  IF tag \notin DOMAIN manager.items
    THEN Out(manager, "capex.delete_item", Result(FALSE, "Item nao encontrado"))
  ELSE LET items == Remove(manager.items, tag)
       IN Out([items |-> items,
               total_investment |-> CapexManager_update_total(items)],
              "capex.delete_item", Result(TRUE, "Item removido com sucesso"))

\* CapexManager.clear
CapexManager_clear(manager) ==
  Out([items |-> <<>>, total_investment |-> 0], "capex.clear", Result(TRUE, ""))

(***************************************************************************)
(* opex.py                                                                 *)
(***************************************************************************)
Months == 1..12

\* OpExItem.__init__ (all arguments convertible)
OpExItem(tag, description, quantity, unit_price, recurrent, start_month, end_month) ==
  LET start == Max(1, Min(12, ToInt(start_month)))
  IN [tag |-> tag, description |-> description,
      quantity |-> ToFloat(quantity), unit_price |-> ToFloat(unit_price),
      recurrent |-> recurrent,
      start_month |-> start,
      end_month |-> Max(start, Min(12, ToInt(end_month)))]

\* OpExItem.to_dict
OpExItem_to_dict(item) ==
  [recurrent |-> item.recurrent, start_month |-> item.start_month,
   end_month |-> item.end_month] @@ BaseFinancialItem_to_dict(item)

\* from_dict handing the window of data to the constructor
OpExItem_from_dict_constructed(data, generated) ==
  LET a == BaseArgs(data, generated)
  IN OpExItem(a.tag, a.description, a.quantity, a.unit_price,
              Get(data, "recurrent", TRUE), Num(Get(data, "start_month", 1)),
              Num(Get(data, "end_month", 12)))

\* OpExItem.from_dict: cls(...) with the default flag and window, then the
\* three assignments
OpExItem_from_dict(data, generated) ==
  LET a == BaseArgs(data, generated)
      item == OpExItem(a.tag, a.description, a.quantity, a.unit_price, TRUE,
                       Num(1), Num(12))
  IN [item EXCEPT !.recurrent = Get(data, "recurrent", TRUE),
                  !.start_month = Get(data, "start_month", 1),
                  !.end_month = Get(data, "end_month", 12)]

\* a cost that is charged in its first month only unless it is recurrent
get_monthly_cost_once(item, month) ==
  IF item.start_month <= month /\ month <= item.end_month
       /\ (item.recurrent \/ month = item.start_month)
    THEN total_value(item) ELSE 0

\* OpExItem.get_monthly_cost
get_monthly_cost(item, month) ==
  IF item.start_month <= month /\ month <= item.end_month
    THEN total_value(item) ELSE 0

\* OpexManager.get_monthly_cost
OpexManager_get_monthly_cost(items, month) ==
  Sum([t \in DOMAIN items |-> get_monthly_cost(items[t], month)], DOMAIN items)

\* get_monthly_costs over range(12): the months 0..11
OpexManager_get_monthly_costs_from_zero(items) ==
  [i \in 1..12 |-> OpexManager_get_monthly_cost(items, i - 1)]

\* OpexManager.get_monthly_costs
OpexManager_get_monthly_costs(items) ==
  [i \in 1..12 |-> OpexManager_get_monthly_cost(items, i)]

\* OpexManager._update_total
OpexManager_update_total(items) ==
  Sum(OpexManager_get_monthly_costs(items), 1..12)

\* the assignments of update_item to the window of an item, in order; a failing
\* int() raises after the earlier assignments have been made
UpdateWindow(item, raised, recurrent, start_month, end_month) ==
  LET i1 == IF ~raised /\ recurrent.k # "none"
              THEN [item EXCEPT !.recurrent = recurrent.b] ELSE item
      r2 == ~raised /\ start_month.k = "bad"
      i2 == IF ~raised /\ start_month.k = "num"
              THEN [i1 EXCEPT !.start_month = Max(1, Min(12, ToInt(start_month)))]
              ELSE i1
      r3 == ~raised /\ ~r2 /\ end_month.k = "bad"
      i3 == IF ~raised /\ ~r2 /\ end_month.k = "num"
              THEN [i2 EXCEPT !.end_month =
                      Max(i2.start_month, Min(12, ToInt(end_month)))]
              ELSE i2
  IN [item |-> i3, raised |-> raised \/ r2 \/ r3]

\* add_item filing the item under the tag argument instead of item.tag
OpexManager_add_item_keyed_by_argument(manager, description, quantity, unit_price, recurrent, start_month, end_month, tag, generated) ==
  LET raised == ~(Converts(quantity) /\ Converts(unit_price)
                    /\ Converts(start_month) /\ Converts(end_month))
      item == OpExItem(IF tag # NoTag THEN tag ELSE generated, description,
                       quantity, unit_price, recurrent, start_month, end_month)
      items == (tag :> item) @@ manager.items
  IN IF raised
       THEN Out(manager, "opex.add_item", Result(FALSE, "Erro ao adicionar item"))
     ELSE IF ~validate(item).ok
       THEN Out(manager, "opex.add_item", validate(item))
     ELSE IF tag \in DOMAIN manager.items
       THEN Out(manager, "opex.add_item", Result(FALSE, "TAG ja existe"))
     ELSE Out([items |-> items,
               total_annual_cost |-> OpexManager_update_total(items)],
              "opex.add_item", Result(TRUE, "Item adicionado com sucesso"))

\* OpexManager.add_item
OpexManager_add_item(manager, description, quantity, unit_price, recurrent, start_month, end_month, tag, generated) ==
  LET t == IF tag # NoTag THEN tag ELSE generated
      raised == ~(Converts(quantity) /\ Converts(unit_price)
                  /\ Converts(start_month) /\ Converts(end_month))
      item == OpExItem(t, description, quantity, unit_price, recurrent,
                       start_month, end_month)
      items == (t :> item) @@ manager.items
  IN IF raised
       THEN Out(manager, "opex.add_item", Result(FALSE, "Erro ao adicionar item"))
     ELSE IF ~validate(item).ok
       THEN Out(manager, "opex.add_item", validate(item))
     ELSE IF t \in DOMAIN manager.items
       THEN Out(manager, "opex.add_item", Result(FALSE, "TAG ja existe"))
     ELSE Out([items |-> items,
               total_annual_cost |-> OpexManager_update_total(items)],
              "opex.add_item", Result(TRUE, "Item adicionado com sucesso"))

\* the assignments of OpexManager.update_item to the item, in order
OpexUpdateFields(item, description, quantity, unit_price, recurrent, start_month, end_month) ==
  LET u == BaseUpdate(item, description, quantity, unit_price)
  IN UpdateWindow(u.item, u.raised, recurrent, start_month, end_month)

\* OpexManager.update_item
OpexManager_update_item(manager, tag, description, quantity, unit_price, recurrent, start_month, end_month) ==
  IF tag \notin DOMAIN manager.items
    THEN Out(manager, "opex.update_item", Result(FALSE, "Item nao encontrado"))
  ELSE
    LET u == OpexUpdateFields(manager.items[tag], description, quantity,
                              unit_price, recurrent, start_month, end_month)
        items == [manager.items EXCEPT ![tag] = u.item]
    IN IF u.raised
         THEN Out([manager EXCEPT !.items = items],
                  "opex.update_item", Result(FALSE, "Erro ao atualizar item"))
       ELSE IF ~validate(u.item).ok
         THEN Out([manager EXCEPT !.items = items],
                  "opex.update_item", validate(u.item))
       ELSE Out([items |-> items,
                 total_annual_cost |-> OpexManager_update_total(items)],
                "opex.update_item", Result(TRUE, "Item atualizado com sucesso"))

\* OpexManager.delete_item
OpexManager_delete_item(manager, tag) ==
  IF tag \notin DOMAIN manager.items
    THEN Out(manager, "opex.delete_item", Result(FALSE, "Item nao encontrado"))
  ELSE LET items == Remove(manager.items, tag)
       IN Out([items |-> items,
               total_annual_cost |-> OpexManager_update_total(items)],
              "opex.delete_item", Result(TRUE, "Item removido com sucesso"))

\* OpexManager.clear
OpexManager_clear(manager) ==
  Out([items |-> <<>>, total_annual_cost |-> 0], "opex.clear", Result(TRUE, ""))

(***************************************************************************)
(* receitas.py                                                             *)
(***************************************************************************)
\* ReceitaItem.__init__ (all arguments convertible)
ReceitaItem(tag, description, quantity, unit_price, recurrent, start_month, end_month, growth_rate) ==
  LET start == Max(1, Min(12, ToInt(start_month)))
  IN [tag |-> tag, description |-> description,
      quantity |-> ToFloat(quantity), unit_price |-> ToFloat(unit_price),
      recurrent |-> recurrent,
      start_month |-> start,
      end_month |-> Max(start, Min(12, ToInt(end_month))),
      growth_rate |-> Max(0, Min(100, ToFloat(growth_rate)))]

\* ReceitaItem.to_dict
ReceitaItem_to_dict(item) ==
  [recurrent |-> item.recurrent, start_month |-> item.start_month,
   end_month |-> item.end_month, growth_rate |-> item.growth_rate]
    @@ BaseFinancialItem_to_dict(item)

\* ReceitaItem.from_dict: cls(...) with the default flag, window and growth
\* rate, then the four assignments
ReceitaItem_from_dict(data, generated) ==
  LET a == BaseArgs(data, generated)
      item == ReceitaItem(a.tag, a.description, a.quantity, a.unit_price, TRUE,
                          Num(1), Num(12), Num(0))
  IN [item EXCEPT !.recurrent = Get(data, "recurrent", TRUE),
                  !.start_month = Get(data, "start_month", 1),
                  !.end_month = Get(data, "end_month", 12),
                  !.growth_rate = Get(data, "growth_rate", 0)]

RECURSIVE Grow(_, _, _)
\* value * (1 + growth_rate/100) ** months_passed
Grow(value, growth_rate, months_passed) ==
  IF months_passed = 0 THEN value
  ELSE Grow(MulDiv(value, 100 + growth_rate, 100), growth_rate, months_passed - 1)

\* get_monthly_revenue compounding from the first active month on
get_monthly_revenue_compounded(item, month) ==
  IF item.start_month <= month /\ month <= item.end_month
    THEN Grow(total_value(item), item.growth_rate, month - item.start_month + 1)
    ELSE 0

\* ReceitaItem.get_monthly_revenue
get_monthly_revenue(item, month) ==
  IF item.start_month <= month /\ month <= item.end_month
    THEN LET months_passed == month - item.start_month
         IN Grow(total_value(item), item.growth_rate, months_passed)
    ELSE 0

\* ReceitasManager.get_monthly_revenue
ReceitasManager_get_monthly_revenue(items, month) ==
  Sum([t \in DOMAIN items |-> get_monthly_revenue(items[t], month)], DOMAIN items)

\* ReceitasManager.get_monthly_revenues
ReceitasManager_get_monthly_revenues(items) ==
  [i \in 1..12 |-> ReceitasManager_get_monthly_revenue(items, i)]

\* ReceitasManager._update_total
ReceitasManager_update_total(items) ==
  Sum(ReceitasManager_get_monthly_revenues(items), 1..12)

\* ReceitasManager.add_item
ReceitasManager_add_item(manager, description, quantity, unit_price, recurrent, start_month, end_month, growth_rate, tag, generated) ==
  LET t == IF tag # NoTag THEN tag ELSE generated
      raised == ~(Converts(quantity) /\ Converts(unit_price)
                  /\ Converts(start_month) /\ Converts(end_month)
                  /\ Converts(growth_rate))
      item == ReceitaItem(t, description, quantity, unit_price, recurrent,
                          start_month, end_month, growth_rate)
      items == (t :> item) @@ manager.items
  IN IF raised
       THEN Out(manager, "receitas.add_item", Result(FALSE, "Erro ao adicionar item"))
     ELSE IF ~validate(item).ok
       THEN Out(manager, "receitas.add_item", validate(item))
     ELSE IF t \in DOMAIN manager.items
       THEN Out(manager, "receitas.add_item", Result(FALSE, "TAG ja existe"))
     ELSE Out([items |-> items,
               total_annual_revenue |-> ReceitasManager_update_total(items)],
              "receitas.add_item", Result(TRUE, "Item adicionado com sucesso"))

\* the assignments of ReceitasManager.update_item to the item, in order
ReceitasUpdateFields(item, description, quantity, unit_price, recurrent, start_month, end_month, growth_rate) ==
  LET u == BaseUpdate(item, description, quantity, unit_price)
      w == UpdateWindow(u.item, u.raised, recurrent, start_month, end_month)
      r5 == ~w.raised /\ growth_rate.k = "bad"
      i5 == IF ~w.raised /\ growth_rate.k = "num"
              THEN [w.item EXCEPT !.growth_rate =
                      Max(0, Min(100, ToFloat(growth_rate)))]
              ELSE w.item
  IN [item |-> i5, raised |-> w.raised \/ r5]

\* ReceitasManager.update_item
ReceitasManager_update_item(manager, tag, description, quantity, unit_price, recurrent, start_month, end_month, growth_rate) ==
  IF tag \notin DOMAIN manager.items
    THEN Out(manager, "receitas.update_item", Result(FALSE, "Item nao encontrado"))
  ELSE
    LET u == ReceitasUpdateFields(manager.items[tag], description, quantity,
                                  unit_price, recurrent, start_month, end_month,
                                  growth_rate)
        items == [manager.items EXCEPT ![tag] = u.item]
    IN IF u.raised
         THEN Out([manager EXCEPT !.items = items],
                  "receitas.update_item", Result(FALSE, "Erro ao atualizar item"))
       ELSE IF ~validate(u.item).ok
         THEN Out([manager EXCEPT !.items = items],
                  "receitas.update_item", validate(u.item))
       ELSE Out([items |-> items,
                 total_annual_revenue |-> ReceitasManager_update_total(items)],
                "receitas.update_item", Result(TRUE, "Item atualizado com sucesso"))

\* ReceitasManager.delete_item
ReceitasManager_delete_item(manager, tag) ==
  IF tag \notin DOMAIN manager.items
    THEN Out(manager, "receitas.delete_item", Result(FALSE, "Item nao encontrado"))
  ELSE LET items == Remove(manager.items, tag)
       IN Out([items |-> items,
               total_annual_revenue |-> ReceitasManager_update_total(items)],
              "receitas.delete_item", Result(TRUE, "Item removido com sucesso"))

\* ReceitasManager.clear
ReceitasManager_clear(manager) ==
  Out([items |-> <<>>, total_annual_revenue |-> 0], "receitas.clear",
      Result(TRUE, ""))

(***************************************************************************)
(* config.py                                                               *)
(***************************************************************************)
OutOfRange(x) == x < 0 \/ x > 100

\* Config.update: tma, ir and csll are converted, checked and assigned one after
\* the other; a failed check or conversion returns at once
Config_update(c, tma, ir, csll) ==
  LET t_bad == tma.k = "bad"
      t_out == tma.k = "num" /\ OutOfRange(ToFloat(tma))
      c1 == IF tma.k = "num" /\ ~t_out THEN [c EXCEPT !.tma = ToFloat(tma)] ELSE c
      s1 == t_bad \/ t_out
      i_bad == ~s1 /\ ir.k = "bad"
      i_out == ~s1 /\ ir.k = "num" /\ OutOfRange(ToFloat(ir))
      c2 == IF ~s1 /\ ir.k = "num" /\ ~i_out THEN [c1 EXCEPT !.ir = ToFloat(ir)]
            ELSE c1
      s2 == s1 \/ i_bad \/ i_out
      c_bad == ~s2 /\ csll.k = "bad"
      c_out == ~s2 /\ csll.k = "num" /\ OutOfRange(ToFloat(csll))
      c3 == IF ~s2 /\ csll.k = "num" /\ ~c_out THEN [c2 EXCEPT !.csll = ToFloat(csll)]
            ELSE c2
  IN Out(c3, "config.update",
         IF t_out THEN Result(FALSE, "TMA deve estar entre 0 e 100%")
         ELSE IF i_out THEN Result(FALSE, "IR deve estar entre 0 e 100%")
         ELSE IF c_out THEN Result(FALSE, "CSLL deve estar entre 0 e 100%")
         ELSE IF t_bad \/ i_bad \/ c_bad
           THEN Result(FALSE, "Valores invalidos. Use apenas numeros")
         ELSE Result(TRUE, "Configuracoes atualizadas com sucesso"))

\* Config.get_effective_tax_rate
get_effective_tax_rate(c) == c.ir + c.csll

(***************************************************************************)
(* financial_calculations.py                                               *)
(***************************************************************************)
\* get_monthly_investment counting every item of that month or an earlier one
CapexManager_get_monthly_investment_upto(items, month) ==
  LET of_month == {t \in DOMAIN items : items[t].month <= month}
  IN Sum([t \in of_month |-> total_value(items[t])], of_month)

\* CapexManager.get_monthly_investment
CapexManager_get_monthly_investment(items, month) ==
  LET of_month == {t \in DOMAIN items : items[t].month = month}
  IN Sum([t \in of_month |-> total_value(items[t])], of_month)

RECURSIVE Accumulate(_, _, _)
\* the loop of get_monthly_investments over the items S still to visit:
\* monthly[item.month - 1] += item.total_value (list index m - 1 is element m here)
Accumulate(monthly, items, S) ==
  IF S = {} THEN monthly
  ELSE LET t == CHOOSE u \in S : TRUE
       IN Accumulate([monthly EXCEPT ![items[t].month] = @ + total_value(items[t])],
                     items, S \ {t})

\* CapexManager.get_monthly_investments
CapexManager_get_monthly_investments(items) ==
  Accumulate([i \in 1..12 |-> 0], items, DOMAIN items)

\* the loop body with taxes = ebitda * rate / 100, negative when ebitda is
CashFlowEntry_signed_taxes(capex, opex_m, receitas, c, month) ==
  LET revenue == ReceitasManager_get_monthly_revenue(receitas.items, month)
      opex == OpexManager_get_monthly_cost(opex_m.items, month)
      capex_v == CapexManager_get_monthly_investment(capex.items, month)
      ebitda == revenue - opex
      taxes == MulDiv(ebitda, get_effective_tax_rate(c), 100)
      net_cash_flow == ebitda - taxes - capex_v
  IN [month |-> month, revenue |-> revenue, opex |-> opex, capex |-> capex_v,
      ebitda |-> ebitda, taxes |-> taxes, net_cash_flow |-> net_cash_flow]

\* the body of the loop of calculate_cash_flows for one month
CashFlowEntry(capex, opex_m, receitas, c, month) ==
  LET revenue == ReceitasManager_get_monthly_revenue(receitas.items, month)
      opex == OpexManager_get_monthly_cost(opex_m.items, month)
      capex_v == CapexManager_get_monthly_investment(capex.items, month)
      ebitda == revenue - opex
      taxes == Max(0, MulDiv(ebitda, get_effective_tax_rate(c), 100))
      net_cash_flow == ebitda - taxes - capex_v
  IN [month |-> month, revenue |-> revenue, opex |-> opex, capex |-> capex_v,
      ebitda |-> ebitda, taxes |-> taxes, net_cash_flow |-> net_cash_flow]

\* FinancialCalculations.calculate_cash_flows: the list it returns
calculate_cash_flows(capex, opex_m, receitas, c) ==
  [i \in 1..12 |-> CashFlowEntry(capex, opex_m, receitas, c, i)]

\* what an indicator returns is None or a float
NoneValue == [k |-> "none"]

Abs(x) == IF x < 0 THEN -x ELSE x

\* the float n / d (d # 0), held as a fraction in lowest terms with d > 0
Rat(n, d) ==
  LET g == GCD(Abs(n), Abs(d))
  IN [k |-> "num", n |-> (IF d < 0 THEN -n ELSE n) \div g, d |-> Abs(d) \div g]

\* [cf["net_cash_flow"] for cf in cash_flows]
NetFlows(series) == [i \in 1..Len(series) |-> series[i].net_cash_flow]

RECURSIVE Cumulative(_, _)
\* cumulative_flow of calculate_payback after the first n entries
Cumulative(series, n) ==
  IF n = 0 THEN 0 ELSE Cumulative(series, n - 1) + series[n].net_cash_flow

\* calculate_payback returning only once cumulative_flow is above 0
calculate_payback_strict(series) ==
  LET reached == {n \in 1..Len(series) : Cumulative(series, n) > 0}
  IN IF reached = {} THEN NoneValue
     ELSE LET first == CHOOSE n \in reached : \A o \in reached : n <= o
              i == first - 1
              net == series[first].net_cash_flow
              prev_cf == Cumulative(series, first) - net
          IN IF i > 0 THEN Rat(i * net - prev_cf, net) ELSE Rat(i + 1, 1)

\* calculate_payback with fraction = prev_cf / net_cash_flow
calculate_payback_signed(series) ==
  LET reached == {n \in 1..Len(series) : Cumulative(series, n) >= 0}
  IN IF reached = {} THEN NoneValue
     ELSE LET first == CHOOSE n \in reached : \A o \in reached : n <= o
              i == first - 1
              net == series[first].net_cash_flow
              prev_cf == Cumulative(series, first) - net
          IN IF i > 0 THEN Rat(i * net + prev_cf, net) ELSE Rat(i + 1, 1)

\* FinancialCalculations.calculate_payback: the loop returns at the first entry
\* (0-based index i) where cumulative_flow >= 0; i + fraction is
\* (i * net - prev_cf) / net
calculate_payback(series) ==
  LET reached == {n \in 1..Len(series) : Cumulative(series, n) >= 0}
  IN IF reached = {} THEN NoneValue
     ELSE LET first == CHOOSE n \in reached : \A o \in reached : n <= o
              i == first - 1
              net == series[first].net_cash_flow
              prev_cf == Cumulative(series, first) - net
          IN IF i > 0 THEN Rat(i * net - prev_cf, net) ELSE Rat(i + 1, 1)

\* (1 + monthly_rate) ** e with monthly_rate = (1 + tma/100) ** (1/12) - 1, as
\* the power e of the base (1 + tma/100) ** (1/12); the base is 1 when tma is 0,
\* and every power of it is then its first power
Power(tma, e) == IF tma = 0 THEN 1 ELSE e

\* FinancialCalculations.calculate_vpl.  The float npv is the sum over p of
\* coef[p] / ((1 + tma/100) ** (1/12)) ** p; it is held as tma and coef.  For
\* the rates of this model (0 and 50) x^12 = 100/(100 + tma) is the minimal
\* polynomial of 1/base, so two such sums are equal exactly when their
\* coefficients are.
calculate_vpl(series, c) ==
  [k |-> "npv", tma |-> c.tma,
   coef |-> [p \in 1..12 |->
              LET at == {i \in 1..Len(series) : Power(c.tma, i) = p}
              IN Sum([i \in at |-> series[i].net_cash_flow], at)]]

\* calculate_divida_ebitda giving None whenever total_ebitda is not above 0
calculate_divida_ebitda_positive(series) ==
  LET idx == 1..Len(series)
      total_ebitda == Sum([i \in idx |-> series[i].ebitda], idx)
      total_capex == Sum([i \in idx |-> series[i].capex], idx)
  IN IF total_ebitda <= 0 THEN NoneValue ELSE Rat(total_capex, total_ebitda)

\* FinancialCalculations.calculate_divida_ebitda
calculate_divida_ebitda(series) ==
  LET idx == 1..Len(series)
      total_ebitda == Sum([i \in idx |-> series[i].ebitda], idx)
      total_capex == Sum([i \in idx |-> series[i].capex], idx)
  IN IF total_ebitda = 0 THEN NoneValue ELSE Rat(total_capex, total_ebitda)

\* the number of changes of sign along the non-zero values of flows
SignChanges(flows) ==
  LET nz == SelectSeq(flows, LAMBDA x : x # 0)
  IN Cardinality({i \in 1..(Len(nz) - 1) : (nz[i] < 0) # (nz[i + 1] < 0)})

\* np.irr(flows), which depends on the numpy installed.  From numpy 1.20 on
\* the function is gone and the call raises AttributeError.  Before, it takes
\* the real positive roots x of the polynomial of the flows and returns
\* np.nan when there is none, else the rate 1/x - 1 nearest to 0.  By the rule
\* of signs there is no such root without a change of sign, at least one for
\* an odd number of changes, and either for an even number.
\* The model holds the float of the last two cases as "rate": one value, fixed
\* by the flows.
np_irr(build, flows) ==
  IF build = "without_irr" THEN "raises"
  ELSE IF SignChanges(flows) = 0 THEN "nan"
  ELSE "rate"

\* FinancialCalculations.calculate_tir under the numpy installed.  The
\* annualised rate ((1 + irr) ** 12 - 1) * 100 is held as the flows it is the
\* rate of; nan stays nan.
calculate_tir(build, series) ==
  LET o == np_irr(build, NetFlows(series))
  IN IF o = "raises" THEN NoneValue
     ELSE IF o = "nan" THEN [k |-> "nan"]
     ELSE [k |-> "irr", flows |-> NetFlows(series)]

\* the dict calculate_all assigns to self.results; tir is the value
\* calculate_tir returned and now is datetime.now().isoformat()
Results(cf, c, tir, now) ==
  [cash_flows |-> cf, tir |-> tir, vpl |-> calculate_vpl(cf, c),
   payback |-> calculate_payback(cf),
   divida_ebitda |-> calculate_divida_ebitda(cf), calculated_at |-> now]

Calculated(res) ==
  [results |-> res,
   ret |-> [op |-> "calculate_all", ok |-> TRUE,
            msg |-> "Calculos realizados com sucesso", value |-> res]]

\* calculate_all giving up when the rate of return is None
calculate_all_aborting(held, capex, opex_m, receitas, c, tir, now) ==
  IF tir = NoneValue
    THEN [results |-> held,
          ret |-> [op |-> "calculate_all", ok |-> FALSE,
                   msg |-> "Erro ao realizar calculos", value |-> NoneValue]]
    ELSE Calculated(Results(calculate_cash_flows(capex, opex_m, receitas, c), c,
                            tir, now))

\* calculate_all answering from self.results once it holds results
calculate_all_cached(held, capex, opex_m, receitas, c, tir, now) ==
  IF held # <<>>
    THEN Calculated(held)
    ELSE Calculated(Results(calculate_cash_flows(capex, opex_m, receitas, c), c,
                            tir, now))

\* calculate_all extending the cash flows it holds instead of replacing them
calculate_all_extending(held, capex, opex_m, receitas, c, tir, now) ==
  LET cf == calculate_cash_flows(capex, opex_m, receitas, c)
  IN Calculated(Results(IF held = <<>> THEN cf ELSE held.cash_flows \o cf, c,
                        tir, now))

\* FinancialCalculations.calculate_all, with held = self.results before the
\* call: what it leaves in self.results and what it returns.  The except branch
\* needs calculate_cash_flows to raise, which it does not on the floats and
\* ints the managers and Config store; each indicator catches its own errors.
calculate_all(held, capex, opex_m, receitas, c, tir, now) ==
  Calculated(Results(calculate_cash_flows(capex, opex_m, receitas, c), c, tir, now))

\* the texts of format_results: the sentinel, or a number under a format
NA == [text |-> "N/A"]
Formatted(format, value) == [text |-> format, of |-> value]

\* format_results rounding the payback to the nearest month
format_results_rounded(held) ==
  IF held = <<>>
    THEN [tir |-> NA, vpl |-> NA, payback |-> NA, divida_ebitda |-> NA]
    ELSE [tir |-> IF held.tir # NoneValue
                    THEN Formatted("{:.2f}%", held.tir) ELSE NA,
          vpl |-> IF held.vpl # NoneValue
                    THEN Formatted("R$ {:,.2f}", held.vpl) ELSE NA,
          payback |-> IF held.payback # NoneValue
                        THEN LET nearest == (2 * held.payback.n + held.payback.d)
                                              \div (2 * held.payback.d)
                             IN [text |-> "{} anos e {} meses",
                                 years |-> nearest \div 12, months |-> nearest % 12]
                        ELSE NA,
          divida_ebitda |-> IF held.divida_ebitda # NoneValue
                              THEN Formatted("{:.2f}x", held.divida_ebitda) ELSE NA]

\* FinancialCalculations.format_results; payback // 12 and payback % 12 are
\* taken of the fraction n / d >= 0
format_results(held) ==
  IF held = <<>>
    THEN [tir |-> NA, vpl |-> NA, payback |-> NA, divida_ebitda |-> NA]
    ELSE [tir |-> IF held.tir # NoneValue
                    THEN Formatted("{:.2f}%", held.tir) ELSE NA,
          vpl |-> IF held.vpl # NoneValue
                    THEN Formatted("R$ {:,.2f}", held.vpl) ELSE NA,
          payback |-> IF held.payback # NoneValue
                        THEN [text |-> "{} anos e {} meses",
                              years |-> (held.payback.n \div held.payback.d) \div 12,
                              months |-> (held.payback.n \div held.payback.d) % 12]
                        ELSE NA,
          divida_ebitda |-> IF held.divida_ebitda # NoneValue
                              THEN Formatted("{:.2f}x", held.divida_ebitda) ELSE NA]

(***************************************************************************)
(* Arguments the callers pass                                              *)
(***************************************************************************)
Blank == <<" ">>
Name == <<"A">>

\* description, quantity, unit_price that fail on add_item, one for each way
AddInvalid ==
  {<<Blank, Num(1), Num(1)>>, <<Name, Num(-1), Num(1)>>,
   <<Name, Num(1), Num(-1)>>, <<Name, Bad, Num(1)>>}
AddTags == Tags \cup {NoTag}

\* CapexManager: add_item and update_item (None: the field is not supplied)
CapexAddBase == {<<Name, Num(n), Num(1)>> : n \in 1..MaxQuantity} \cup AddInvalid
MonthArgs == {Num(0), Num(6), Num(13)}
CapexUpdDescriptions == {NoneStr, Str(Blank), Str(Name)}
CapexUpdQuantities == {None, Num(-1), Num(MaxQuantity), Bad}
CapexUpdPrices == {None, Num(1), Bad}
CapexUpdMonthArgs == {None, Bad} \cup MonthArgs

\* OpexManager: the flag and the window are varied, the base fields are not
OpexAddBase == {<<Name, Num(1), Num(1)>>} \cup AddInvalid
OpexStartArgs == {Num(0), Num(5)}
OpexEndArgs == {Num(3), Num(13)}
OpexUpdDescriptions == {NoneStr, Str(Name)}
OpexUpdQuantities == {None, Bad}
OpexUpdPrices == {None, Num(1)}
OpexUpdRecurrent == {NoneBool, Bool(TRUE), Bool(FALSE)}
OpexUpdStartArgs == {None} \cup OpexStartArgs
OpexUpdEndArgs == {None} \cup OpexEndArgs

\* ReceitasManager: the quantity, the start and the growth rate are varied
ReceitasAddBase == {<<Name, Num(n), Num(1)>> : n \in 1..MaxQuantity} \cup AddInvalid
ReceitasStartArgs == {Num(0), Num(5)}
ReceitasEndArgs == {Num(13)}
GrowthArgs == {Num(-10), Num(50), Num(250)}
ReceitasUpdDescriptions == {NoneStr, Str(Name)}
ReceitasUpdQuantities == {None, Bad}
ReceitasUpdPrices == {None, Num(1)}
ReceitasUpdRecurrent == {NoneBool, Bool(TRUE)}
ReceitasUpdStartArgs == {None} \cup ReceitasStartArgs
ReceitasUpdEndArgs == {None} \cup ReceitasEndArgs
ReceitasUpdGrowthArgs == {None} \cup GrowthArgs

RateArgs == {None, Num(-5), Num(50), Num(150), Bad}

(***************************************************************************)
(* Specification: one object (a schedule or the configuration) under any   *)
(* sequence of calls                                                       *)
(***************************************************************************)
Subjects == {"capex", "opex", "receitas", "config"}

\* the numpy releases that differ for the program: with np.irr (before 1.20)
\* and without it
NumpyBuilds == {"with_irr", "without_irr"}

\* no pass of calculate_cash_flows is open
Idle == [stage |-> "idle", mutated |-> FALSE]

Start ==
  /\ capex_manager = [items |-> <<>>, total_investment |-> 0]
  /\ opex_manager = [items |-> <<>>, total_annual_cost |-> 0]
  /\ receitas_manager = [items |-> <<>>, total_annual_revenue |-> 0]
  /\ config = [tma |-> 0, ir |-> 0, csll |-> 0]
  /\ results = <<>>
  /\ ret = Ret("init", Result(TRUE, ""))
  /\ pass = Idle

\* the schedules and Config never call numpy
Init == Start /\ subject \in Subjects /\ cash_flows = <<>> /\ numpy = "without_irr"

\* a call on the CapexManager: its outcome becomes the state
\* a call that changes a schedule or the configuration while a pass of
\* calculate_cash_flows is reading them
Interleaved(p, changed) ==
  IF p.stage = "running" /\ changed THEN [p EXCEPT !.mutated = TRUE] ELSE p

CapexCall(out) ==
  /\ capex_manager' = out.manager
  /\ ret' = out.ret
  /\ pass' = Interleaved(pass, out.manager # capex_manager)
  /\ UNCHANGED NotCapex

OpexCall(out) ==
  /\ opex_manager' = out.manager
  /\ ret' = out.ret
  /\ pass' = Interleaved(pass, out.manager # opex_manager)
  /\ UNCHANGED NotOpex

ReceitasCall(out) ==
  /\ receitas_manager' = out.manager
  /\ ret' = out.ret
  /\ pass' = Interleaved(pass, out.manager # receitas_manager)
  /\ UNCHANGED NotReceitas

ConfigCall(out) ==
  /\ config' = out.manager
  /\ ret' = out.ret
  /\ pass' = Interleaved(pass, out.manager # config)
  /\ UNCHANGED NotConfig

\* the tags uuid4 can yield for a call
Generated(tag) == IF tag # NoTag THEN {tag} ELSE Tags

CapexAdd ==
  \E b \in CapexAddBase, m \in MonthArgs, t \in AddTags :
    \E generated \in Generated(t) :
      CapexCall(CapexManager_add_item(capex_manager, b[1], b[2], b[3], m, t,
                                      generated))

CapexUpdate ==
  \E t \in Tags, d \in CapexUpdDescriptions, q \in CapexUpdQuantities,
     p \in CapexUpdPrices, m \in CapexUpdMonthArgs :
    /\ Supplied(<<d, q, p, m>>) <= MaxSupplied
    /\ CapexCall(CapexManager_update_item(capex_manager, t, d, q, p, m))

CapexDelete == \E t \in Tags : CapexCall(CapexManager_delete_item(capex_manager, t))

CapexClear == CapexCall(CapexManager_clear(capex_manager))

OpexAdd ==
  \E b \in OpexAddBase, r \in BOOLEAN, s \in OpexStartArgs, e \in OpexEndArgs,
     t \in AddTags :
    \E generated \in Generated(t) :
      OpexCall(OpexManager_add_item(opex_manager, b[1], b[2], b[3], r, s, e, t,
                                    generated))

OpexUpdate ==
  \E t \in Tags, d \in OpexUpdDescriptions, q \in OpexUpdQuantities,
     p \in OpexUpdPrices, r \in OpexUpdRecurrent, s \in OpexUpdStartArgs,
     e \in OpexUpdEndArgs :
    /\ Supplied(<<d, q, p, r, s, e>>) <= MaxSupplied
    /\ OpexCall(OpexManager_update_item(opex_manager, t, d, q, p, r, s, e))

OpexDelete == \E t \in Tags : OpexCall(OpexManager_delete_item(opex_manager, t))

OpexClear == OpexCall(OpexManager_clear(opex_manager))

ReceitasAdd ==
  \E b \in ReceitasAddBase, s \in ReceitasStartArgs, e \in ReceitasEndArgs,
     g \in GrowthArgs, t \in AddTags :
    \E generated \in Generated(t) :
      ReceitasCall(ReceitasManager_add_item(receitas_manager, b[1], b[2], b[3],
                                            TRUE, s, e, g, t, generated))

ReceitasUpdate ==
  \E t \in Tags, d \in ReceitasUpdDescriptions, q \in ReceitasUpdQuantities,
     p \in ReceitasUpdPrices, r \in ReceitasUpdRecurrent,
     s \in ReceitasUpdStartArgs, e \in ReceitasUpdEndArgs,
     g \in ReceitasUpdGrowthArgs :
    /\ Supplied(<<d, q, p, r, s, e, g>>) <= MaxSupplied
    /\ ReceitasCall(ReceitasManager_update_item(receitas_manager, t, d, q, p, r,
                                                s, e, g))

ReceitasDelete ==
  \E t \in Tags : ReceitasCall(ReceitasManager_delete_item(receitas_manager, t))

ReceitasClear == ReceitasCall(ReceitasManager_clear(receitas_manager))

\* an item of a schedule is written out with to_dict and read back with
\* from_dict; the caller holds the item read back
RoundTrip(op, value) ==
  /\ ret' = [op |-> op, ok |-> TRUE, msg |-> "", value |-> value]
  /\ UNCHANGED <<capex_manager, opex_manager, receitas_manager, config, results,
                 subject, cash_flows, numpy, pass>>

CapexRoundTrip ==
  \E t \in DOMAIN capex_manager.items, generated \in Tags :
    RoundTrip("capex.from_dict",
              CapExItem_from_dict(CapExItem_to_dict(capex_manager.items[t]), generated))

OpexRoundTrip ==
  \E t \in DOMAIN opex_manager.items, generated \in Tags :
    RoundTrip("opex.from_dict",
              OpExItem_from_dict(OpExItem_to_dict(opex_manager.items[t]), generated))

ReceitasRoundTrip ==
  \E t \in DOMAIN receitas_manager.items, generated \in Tags :
    RoundTrip("receitas.from_dict",
              ReceitaItem_from_dict(ReceitaItem_to_dict(receitas_manager.items[t]), generated))

ConfigUpdate ==
  \E tma \in RateArgs, ir \in RateArgs, csll \in RateArgs :
    ConfigCall(Config_update(config, tma, ir, csll))

\* FinancialCalculations.calculate_cash_flows
CalculateCashFlows ==
  /\ ret' = [op |-> "calculate_cash_flows", ok |-> TRUE, msg |-> "",
             value |-> calculate_cash_flows(capex_manager, opex_manager,
                                            receitas_manager, config)]
  /\ UNCHANGED <<capex_manager, opex_manager, receitas_manager, config, results,
                 subject, cash_flows, numpy, pass>>

Next ==
  \/ subject = "capex" /\ CapexAdd
  \/ subject = "capex" /\ CapexUpdate
  \/ subject = "capex" /\ CapexDelete
  \/ subject = "capex" /\ CapexClear
  \/ subject = "capex" /\ CapexRoundTrip
  \/ subject = "opex" /\ OpexAdd
  \/ subject = "opex" /\ OpexUpdate
  \/ subject = "opex" /\ OpexDelete
  \/ subject = "opex" /\ OpexClear
  \/ subject = "opex" /\ OpexRoundTrip
  \/ subject = "receitas" /\ ReceitasAdd
  \/ subject = "receitas" /\ ReceitasUpdate
  \/ subject = "receitas" /\ ReceitasDelete
  \/ subject = "receitas" /\ ReceitasClear
  \/ subject = "receitas" /\ ReceitasRoundTrip
  \/ subject = "config" /\ ConfigUpdate

Spec == Init /\ [][Next]_vars

(***************************************************************************)
(* Specification: the three schedules and the configuration of one         *)
(* project, filled and emptied in any order, and the cash flows calculated *)
(* from them                                                               *)
(***************************************************************************)
ProjectTag == "ITEM_a"
ProjectMonthArgs == {Num(0), Num(6)}
ProjectEndArgs == {Num(3), Num(13)}
ProjectStartArgs == {Num(0), Num(5)}
ProjectGrowthArgs == {Num(-10), Num(50)}
ProjectRateArgs == {None, Num(50)}

InitProject == Start /\ subject = "project" /\ cash_flows = <<>> /\ numpy = "without_irr"

ProjectCapexAdd ==
  \E q \in 1..MaxQuantity, m \in ProjectMonthArgs :
    CapexCall(CapexManager_add_item(capex_manager, Name, Num(q), Num(1), m,
                                    ProjectTag, ProjectTag))

ProjectCapexDelete == CapexCall(CapexManager_delete_item(capex_manager, ProjectTag))

ProjectOpexAdd ==
  \E q \in 1..MaxQuantity, e \in ProjectEndArgs :
    OpexCall(OpexManager_add_item(opex_manager, Name, Num(q), Num(1), TRUE,
                                  Num(1), e, ProjectTag, ProjectTag))

ProjectOpexDelete == OpexCall(OpexManager_delete_item(opex_manager, ProjectTag))

ProjectReceitasAdd ==
  \E s \in ProjectStartArgs, g \in ProjectGrowthArgs :
    ReceitasCall(ReceitasManager_add_item(receitas_manager, Name, Num(1), Num(1),
                                          TRUE, s, Num(12), g, ProjectTag,
                                          ProjectTag))

ProjectReceitasDelete ==
  ReceitasCall(ReceitasManager_delete_item(receitas_manager, ProjectTag))

ProjectConfigUpdate ==
  \E ir \in ProjectRateArgs, csll \in ProjectRateArgs :
    ConfigCall(Config_update(config, None, ir, csll))

NextProject ==
  \/ ProjectCapexAdd
  \/ ProjectCapexDelete
  \/ ProjectOpexAdd
  \/ ProjectOpexDelete
  \/ ProjectReceitasAdd
  \/ ProjectReceitasDelete
  \/ ProjectConfigUpdate
  \/ CalculateCashFlows

SpecProject == InitProject /\ [][NextProject]_vars

(***************************************************************************)
(* Specification: the indicator methods of FinancialCalculations applied   *)
(* to a list of cash-flow entries the caller passes                        *)
(***************************************************************************)
\* the largest number of entries in a list passed to an indicator method
MaxEntries == 4

EbitdaValues == {-500, 0, 500, 1000}
CapexValues == {0, 500}
\* the month field of the first entry of a list; the later entries follow it
FirstMonths == {1, 3}
SeriesTmaArgs == {Num(0), Num(50)}

\* an entry as calculate_cash_flows appends it, for a tax rate of 0
Entry(month, ebitda, capex) ==
  [month |-> month, revenue |-> Max(ebitda, 0), opex |-> Max(-ebitda, 0),
   capex |-> capex, ebitda |-> ebitda, taxes |-> 0,
   net_cash_flow |-> ebitda - capex]

InitSeries ==
  /\ Start
  /\ subject = "series"
  /\ numpy \in NumpyBuilds
  /\ \E n \in 0..MaxEntries, first \in FirstMonths :
       \E f \in [1..n -> EbitdaValues \X CapexValues] :
         cash_flows = [i \in 1..n |-> Entry(first + i - 1, f[i][1], f[i][2])]

\* an indicator method returns its value; it assigns nothing
Indicator(op, value) ==
  /\ ret' = [op |-> op, ok |-> TRUE, msg |-> "", value |-> value]
  /\ UNCHANGED <<capex_manager, opex_manager, receitas_manager, config, results,
                 subject, cash_flows, numpy, pass>>

CalculateTir == Indicator("calculate_tir", calculate_tir(numpy, cash_flows))

CalculateVpl == Indicator("calculate_vpl", calculate_vpl(cash_flows, config))

CalculatePayback == Indicator("calculate_payback", calculate_payback(cash_flows))

CalculateDividaEbitda ==
  Indicator("calculate_divida_ebitda", calculate_divida_ebitda(cash_flows))

SeriesConfigUpdate ==
  \E tma \in SeriesTmaArgs : ConfigCall(Config_update(config, tma, None, None))

NextSeries ==
  \/ CalculateTir
  \/ CalculateVpl
  \/ CalculatePayback
  \/ CalculateDividaEbitda
  \/ SeriesConfigUpdate

SpecSeries == InitSeries /\ [][NextSeries]_vars

(***************************************************************************)
(* Specification: one FinancialCalculations engine over the three          *)
(* schedules and the configuration, which change between its calls         *)
(***************************************************************************)
\* the values datetime.now().isoformat() takes
Instants == {"t1", "t2"}
EngineRateArgs == {Num(0), Num(50)}

EngineCapexAdd ==
  CapexCall(CapexManager_add_item(capex_manager, Name, Num(1), Num(1), Num(6),
                                  ProjectTag, ProjectTag))

EngineOpexAdd ==
  OpexCall(OpexManager_add_item(opex_manager, Name, Num(1), Num(1), TRUE, Num(1),
                                Num(12), ProjectTag, ProjectTag))

EngineReceitasAdd ==
  \E s \in ProjectStartArgs :
    ReceitasCall(ReceitasManager_add_item(receitas_manager, Name, Num(1), Num(1),
                                          TRUE, s, Num(12), Num(50), ProjectTag,
                                          ProjectTag))

EngineConfigUpdate ==
  \E ir \in EngineRateArgs : ConfigCall(Config_update(config, None, ir, None))

\* a pass that writes the aggregate it summed back into the revenue schedule
CalculateAll_caching ==
  \E now \in Instants :
    LET cf == calculate_cash_flows(capex_manager, opex_manager, receitas_manager,
                                   config)
        out == calculate_all(results, capex_manager, opex_manager,
                             receitas_manager, config,
                             calculate_tir(numpy, cf), now)
    IN /\ results' = out.results
       /\ ret' = out.ret
       /\ receitas_manager' =
            [receitas_manager EXCEPT
               !.total_annual_revenue = Sum([i \in 1..12 |-> cf[i].ebitda], 1..12)]
       /\ UNCHANGED <<capex_manager, opex_manager, config, subject, cash_flows,
                      numpy, pass>>

CalculateAll ==
  \E now \in Instants :
    LET tir == calculate_tir(numpy, calculate_cash_flows(capex_manager, opex_manager,
                                                         receitas_manager, config))
        out == calculate_all(results, capex_manager, opex_manager,
                             receitas_manager, config, tir, now)
    IN /\ results' = out.results
       /\ ret' = out.ret
       /\ UNCHANGED <<capex_manager, opex_manager, receitas_manager, config,
                      subject, cash_flows, numpy, pass>>

FormatResults ==
  /\ ret' = [op |-> "format_results", ok |-> TRUE, msg |-> "",
             value |-> format_results(results)]
  /\ UNCHANGED <<capex_manager, opex_manager, receitas_manager, config, results,
                 subject, cash_flows, numpy, pass>>

InitEngine == Start /\ subject = "engine" /\ cash_flows = <<>> /\ numpy \in NumpyBuilds

NextEngine ==
  \/ EngineCapexAdd
  \/ ProjectCapexDelete
  \/ EngineOpexAdd
  \/ ProjectOpexDelete
  \/ EngineReceitasAdd
  \/ ProjectReceitasDelete
  \/ EngineConfigUpdate
  \/ CalculateAll
  \/ FormatResults

SpecEngine == InitEngine /\ [][NextEngine]_vars

(***************************************************************************)
(* Specification: a pass of calculate_cash_flows whose twelve months are   *)
(* read one at a time, in any order, while calls on the schedules may come *)
(* between two reads (nothing in the program locks the schedules)          *)
(***************************************************************************)
\* the months whose entry the pass holds
MonthsRead(series) == {series[i].month : i \in DOMAIN series}

PassOpexAdd ==
  OpexCall(OpexManager_add_item(opex_manager, Name, Num(1), Num(1), TRUE, Num(6),
                                Num(7), ProjectTag, ProjectTag))

PassOpexDelete == pass.stage # "running" /\ ProjectOpexDelete

PassReceitasAdd ==
  /\ pass.stage # "running"
  /\ ReceitasCall(ReceitasManager_add_item(receitas_manager, Name, Num(1), Num(1),
                                           TRUE, Num(5), Num(12), Num(50),
                                           ProjectTag, ProjectTag))

\* cash_flows = []
BeginPass ==
  /\ pass.stage # "running"
  /\ pass' = [stage |-> "running", mutated |-> FALSE]
  /\ cash_flows' = <<>>
  /\ UNCHANGED <<capex_manager, opex_manager, receitas_manager, config, results,
                 ret, subject, numpy>>

\* the body of the loop for one month: the three reads and the entry, which
\* takes the month's place in the list
ReadMonth ==
  /\ pass.stage = "running"
  /\ \E month \in (1..12) \ MonthsRead(cash_flows) :
       cash_flows' = [i \in DOMAIN cash_flows \cup {month} |->
                        IF i = month
                          THEN CashFlowEntry(capex_manager, opex_manager,
                                             receitas_manager, config, month)
                          ELSE cash_flows[i]]
  /\ UNCHANGED <<capex_manager, opex_manager, receitas_manager, config, results,
                 ret, subject, numpy, pass>>

\* a pass returning while the entry of one month is still to come
ReturnPass_unjoined ==
  /\ pass.stage = "running"
  /\ Cardinality(MonthsRead(cash_flows)) >= 11
  /\ ret' = [op |-> "calculate_cash_flows", ok |-> TRUE, msg |-> "",
             value |-> cash_flows]
  /\ pass' = [pass EXCEPT !.stage = "returned"]
  /\ cash_flows' = <<>>
  /\ UNCHANGED <<capex_manager, opex_manager, receitas_manager, config, results,
                 subject, numpy>>

\* return cash_flows
ReturnPass ==
  /\ pass.stage = "running"
  /\ MonthsRead(cash_flows) = 1..12
  /\ ret' = [op |-> "calculate_cash_flows", ok |-> TRUE, msg |-> "",
             value |-> cash_flows]
  /\ pass' = [pass EXCEPT !.stage = "returned"]
  /\ cash_flows' = <<>>
  /\ UNCHANGED <<capex_manager, opex_manager, receitas_manager, config, results,
                 subject, numpy>>

InitPass == Start /\ subject = "pass" /\ cash_flows = <<>> /\ numpy = "without_irr"

NextPass ==
  \/ PassOpexAdd
  \/ PassOpexDelete
  \/ PassReceitasAdd
  \/ BeginPass
  \/ ReadMonth
  \/ ReturnPass

SpecPass == InitPass /\ [][NextPass]_vars

(***************************************************************************)
(* Properties                                                              *)
(***************************************************************************)
ItemsOf(manager) == {manager.items[t] : t \in DOMAIN manager.items}

UpdateOps == {"capex.update_item", "opex.update_item", "receitas.update_item"}
AddOps == {"capex.add_item", "opex.add_item", "receitas.add_item"}
DeleteOps == {"capex.delete_item", "opex.delete_item", "receitas.delete_item"}

\* C1: after any sequence of add_item / update_item / delete_item / clear calls,
\* succeeding or failing, each cached aggregate equals the fold over the items
\* stored: total_investment the sum of quantity x unit_price, total_annual_cost
\* and total_annual_revenue the sum of the 12 monthly totals.
C1_AggregateNeverStale ==
  /\ capex_manager.total_investment = CapexManager_update_total(capex_manager.items)
  /\ opex_manager.total_annual_cost = OpexManager_update_total(opex_manager.items)
  /\ receitas_manager.total_annual_revenue =
       ReceitasManager_update_total(receitas_manager.items)

\* C2: update_item is atomic: a call of update_item that returns failure leaves
\* every field of every stored item as it was before the call.
C2_UpdateAtomic ==
  [][(ret'.op \in UpdateOps /\ ~ret'.ok) =>
       /\ capex_manager'.items = capex_manager.items
       /\ opex_manager'.items = opex_manager.items
       /\ receitas_manager'.items = receitas_manager.items]_vars

\* C3: every cost and revenue item held by a schedule has
\* 1 <= start_month <= end_month <= 12, in every reachable state.
C3_WindowOrdered ==
  \A item \in ItemsOf(opex_manager) \cup ItemsOf(receitas_manager) :
    1 <= item.start_month /\ item.start_month <= item.end_month
      /\ item.end_month <= 12

\* the nearest value of 1..12
Nearest(m) == IF m < 1 THEN 1 ELSE IF m > 12 THEN 12 ELSE m

\* C4: every investment item held by CapexManager has its month in 1..12;
\* add_item and update_item called with a month outside 1..12 return what they
\* return for the nearest bound (the month is no reason to reject the call) and,
\* when they succeed, store the nearest bound.
C4_MonthClamped ==
  /\ \A item \in ItemsOf(capex_manager) : item.month \in 1..12
  /\ subject = "capex" =>
     \A b \in CapexAddBase, m \in MonthArgs, t \in Tags :
       LET out == CapexManager_add_item(capex_manager, b[1], b[2], b[3], m, t, t)
           near == CapexManager_add_item(capex_manager, b[1], b[2], b[3],
                                         Num(Nearest(m.v)), t, t)
       IN /\ out.ret = near.ret
          /\ out.ret.ok => out.manager.items[t].month = Nearest(m.v)
  /\ subject = "capex" =>
     \A t \in Tags, d \in CapexUpdDescriptions, q \in CapexUpdQuantities,
        m \in MonthArgs :
       LET out == CapexManager_update_item(capex_manager, t, d, q, None, m)
           near == CapexManager_update_item(capex_manager, t, d, q, None,
                                            Num(Nearest(m.v)))
       IN /\ out.ret = near.ret
          /\ out.ret.ok => out.manager.items[t].month = Nearest(m.v)

C4_Witness ==
  /\ ret.op = "capex.update_item" /\ ret.ok
  /\ \E t, u \in DOMAIN capex_manager.items :
       capex_manager.items[t].month = 1 /\ capex_manager.items[u].month = 12

\* C5: in every reachable state every stored item passes validation
\* (non-blank description, quantity >= 0, unit_price >= 0).
C5_StoredItemsValid ==
  \A item \in ItemsOf(capex_manager) \cup ItemsOf(opex_manager)
                \cup ItemsOf(receitas_manager) :
    validate(item).ok

\* C6: an add_item that fails (validation, or a supplied tag that exists already)
\* returns (False, message) and leaves the item map and the cached aggregate as
\* they were; an add with an existing tag fails and does not overwrite the item.
\* (Stated of the schedule the calls are made on.)
C6_FailedAddChangesNothing ==
  /\ subject = "capex" =>
     \A b \in CapexAddBase, m \in MonthArgs, t \in AddTags, g \in Tags :
       LET out == CapexManager_add_item(capex_manager, b[1], b[2], b[3], m, t, g)
       IN /\ ~out.ret.ok => out.manager = capex_manager /\ out.ret.msg # ""
          /\ t \in DOMAIN capex_manager.items =>
               ~out.ret.ok /\ out.manager.items[t] = capex_manager.items[t]
  /\ subject = "opex" =>
     \A b \in OpexAddBase, r \in BOOLEAN, s \in OpexStartArgs, e \in OpexEndArgs,
        t \in AddTags, g \in Tags :
       LET out == OpexManager_add_item(opex_manager, b[1], b[2], b[3], r, s, e, t, g)
       IN /\ ~out.ret.ok => out.manager = opex_manager /\ out.ret.msg # ""
          /\ t \in DOMAIN opex_manager.items =>
               ~out.ret.ok /\ out.manager.items[t] = opex_manager.items[t]
  /\ subject = "receitas" =>
     \A b \in ReceitasAddBase, s \in ReceitasStartArgs, e \in ReceitasEndArgs,
        gr \in GrowthArgs, t \in AddTags, g \in Tags :
       LET out == ReceitasManager_add_item(receitas_manager, b[1], b[2], b[3],
                                           TRUE, s, e, gr, t, g)
       IN /\ ~out.ret.ok => out.manager = receitas_manager /\ out.ret.msg # ""
          /\ t \in DOMAIN receitas_manager.items =>
               ~out.ret.ok /\ out.manager.items[t] = receitas_manager.items[t]

C6_Witness ==
  /\ ret.op = "receitas.add_item" /\ ~ret.ok /\ ret.msg = "TAG ja existe"
  /\ Cardinality(DOMAIN receitas_manager.items) = 2

\* C7: add_item called without a tag and with valid fields always succeeds and
\* stores exactly one more item, whatever tag is generated.
C7_GeneratedTagFresh ==
  \A n \in 1..MaxQuantity, m \in MonthArgs, g \in Tags :
    LET out == CapexManager_add_item(capex_manager, Name, Num(n), Num(1), m,
                                     NoTag, g)
    IN /\ out.ret.ok
       /\ Cardinality(DOMAIN out.manager.items) =
            Cardinality(DOMAIN capex_manager.items) + 1

NotFound(out, manager, op) ==
  /\ out.ret = Ret(op, Result(FALSE, "Item nao encontrado"))
  /\ out.manager = manager

Deleted(out, manager, tag) ==
  /\ out.ret.ok
  /\ DOMAIN out.manager.items = DOMAIN manager.items \ {tag}
  /\ \A u \in DOMAIN manager.items \ {tag} : out.manager.items[u] = manager.items[u]

\* C8: update_item and delete_item with a tag that is not in the schedule return
\* (False, not found) and leave the item map and the cached aggregate as they
\* were; delete_item with a tag that is in the schedule removes that tag and
\* leaves every other item as it was.  (Stated of the schedule the calls are
\* made on.)
C8_NotFoundAndDelete ==
  /\ subject = "capex" =>
     \A t \in Tags \ DOMAIN capex_manager.items :
       /\ NotFound(CapexManager_delete_item(capex_manager, t), capex_manager,
                   "capex.delete_item")
       /\ \A d \in CapexUpdDescriptions, q \in CapexUpdQuantities,
             p \in CapexUpdPrices, m \in CapexUpdMonthArgs :
            NotFound(CapexManager_update_item(capex_manager, t, d, q, p, m),
                     capex_manager, "capex.update_item")
  /\ subject = "opex" =>
     \A t \in Tags \ DOMAIN opex_manager.items :
       /\ NotFound(OpexManager_delete_item(opex_manager, t), opex_manager,
                   "opex.delete_item")
       /\ \A d \in OpexUpdDescriptions, q \in OpexUpdQuantities,
             r \in OpexUpdRecurrent, s \in OpexUpdStartArgs, e \in OpexUpdEndArgs :
            NotFound(OpexManager_update_item(opex_manager, t, d, q, None, r, s, e),
                     opex_manager, "opex.update_item")
  /\ subject = "receitas" =>
     \A t \in Tags \ DOMAIN receitas_manager.items :
       /\ NotFound(ReceitasManager_delete_item(receitas_manager, t),
                   receitas_manager, "receitas.delete_item")
       /\ \A d \in ReceitasUpdDescriptions, q \in ReceitasUpdQuantities,
             s \in ReceitasUpdStartArgs, g \in ReceitasUpdGrowthArgs :
            NotFound(ReceitasManager_update_item(receitas_manager, t, d, q, None,
                                                 NoneBool, s, None, g),
                     receitas_manager, "receitas.update_item")
  /\ \A t \in DOMAIN capex_manager.items :
       Deleted(CapexManager_delete_item(capex_manager, t), capex_manager, t)
  /\ \A t \in DOMAIN opex_manager.items :
       Deleted(OpexManager_delete_item(opex_manager, t), opex_manager, t)
  /\ \A t \in DOMAIN receitas_manager.items :
       Deleted(ReceitasManager_delete_item(receitas_manager, t),
               receitas_manager, t)

C8_Witness ==
  /\ ret.op = "opex.delete_item" /\ ret.ok
  /\ Cardinality(DOMAIN opex_manager.items) = 1

\* C9: calculate_cash_flows returns 12 entries, for the months 1, 2, ..., 12 in
\* that order; in each, revenue, opex and capex are the three schedules' totals
\* of that month, ebitda = revenue - opex,
\* taxes = max(0, ebitda x effective_tax_rate / 100) (so 0 when ebitda < 0) and
\* net_cash_flow = ebitda - taxes - capex.
C9_CashFlowEntries ==
  ret.op = "calculate_cash_flows" =>
    /\ DOMAIN ret.value = 1..12
    /\ \A i \in 1..12 :
         LET e == ret.value[i]
         IN /\ e.month = i
            /\ e.revenue =
                 ReceitasManager_get_monthly_revenue(receitas_manager.items, i)
            /\ e.opex = OpexManager_get_monthly_cost(opex_manager.items, i)
            /\ e.capex =
                 CapexManager_get_monthly_investment(capex_manager.items, i)
            /\ e.ebitda = e.revenue - e.opex
            /\ e.taxes * 100 = Max(0, e.ebitda * (config.ir + config.csll))
            /\ e.ebitda < 0 => e.taxes = 0
            /\ e.net_cash_flow = e.ebitda - e.taxes - e.capex

C9_Witness ==
  /\ ret.op = "calculate_cash_flows"
  /\ config.ir + config.csll > 0
  /\ \E i, j, k \in 1..12 :
       /\ ret.value[i].ebitda < 0
       /\ ret.value[j].taxes > 0
       /\ ret.value[k].capex > 0

\* the item of the example: quantity 1, unit_price 2000, growth 2%, window 1..12
C10_Example ==
  ReceitaItem("ITEM_a", Name, Num(1), Num(2000), TRUE, Num(1), Num(12), Num(2))

\* C10: for every revenue item and every month m, the monthly revenue is 0
\* outside start_month..end_month, total_value in the first active month, and
\* in each later active month (1 + growth_rate/100) times the revenue of the
\* month before, that is total_value x (1 + growth_rate/100)^(m - start_month);
\* the example item yields 2000 in month 1 and 2040 in month 2.
C10_MonthlyRevenue ==
  /\ \A item \in ItemsOf(receitas_manager), m \in 1..12 :
       /\ item.growth_rate % 10 = 0
       /\ (m < item.start_month \/ m > item.end_month) =>
            get_monthly_revenue(item, m) = 0
       /\ (m = item.start_month /\ m <= item.end_month) =>
            get_monthly_revenue(item, m) = total_value(item)
       /\ (item.start_month < m /\ m <= item.end_month) =>
            get_monthly_revenue(item, m) * 10 =
              get_monthly_revenue(item, m - 1) * ((100 + item.growth_rate) \div 10)
  /\ get_monthly_revenue(C10_Example, 1) = 2000 * Scale
  /\ get_monthly_revenue(C10_Example, 2) = 2040 * Scale

C10_Witness ==
  /\ ret.op = "receitas.add_item" /\ ret.ok
  /\ \E item \in ItemsOf(receitas_manager) :
       item.growth_rate = 50 /\ item.start_month = 5 /\ item.quantity = MaxQuantity

\* the cost item of the example: quantity 1, unit_price 500, window 1..12
C11_Example ==
  OpExItem("ITEM_a", Name, Num(1), Num(500), TRUE, Num(1), Num(12))

\* C11: for every cost item and every month m of 1..12 the monthly cost is
\* total_value when start_month <= m <= end_month and 0 otherwise, and the
\* schedule's total_annual_cost is the sum over its items of
\* total_value x (end_month - start_month + 1); the example item costs 500 in
\* each month and 6000 in the year.
C11_MonthlyCost ==
  /\ \A item \in ItemsOf(opex_manager), m \in 1..12 :
       get_monthly_cost(item, m) =
         IF item.start_month <= m /\ m <= item.end_month
           THEN total_value(item) ELSE 0
  /\ opex_manager.total_annual_cost =
       Sum([t \in DOMAIN opex_manager.items |->
              total_value(opex_manager.items[t])
                * (opex_manager.items[t].end_month
                     - opex_manager.items[t].start_month + 1)],
           DOMAIN opex_manager.items)
  /\ \A m \in 1..12 : get_monthly_cost(C11_Example, m) = 500 * Scale
  /\ OpexManager_update_total(("ITEM_a" :> C11_Example)) = 6000 * Scale

\* the investment item of the example: quantity 2, unit_price 1000, month 1
C12_Example == CapExItem("ITEM_a", Name, Num(2), Num(1000), Num(1))

\* what an item adds to the investment of a month: the month's total with the
\* item less the month's total without it
Contribution(items, t, m) ==
  CapexManager_get_monthly_investment(items, m)
    - CapexManager_get_monthly_investment([u \in DOMAIN items \ {t} |-> items[u]], m)

\* C12: every investment item contributes its total_value to the month that
\* equals its month and 0 to every other month of 1..12; the example item
\* contributes 2000 to month 1 and 0 to the months 2..12.
C12_MonthContribution ==
  /\ \A t \in DOMAIN capex_manager.items, m \in 1..12 :
       Contribution(capex_manager.items, t, m) =
         IF capex_manager.items[t].month = m
           THEN total_value(capex_manager.items[t]) ELSE 0
  /\ Contribution(("ITEM_a" :> C12_Example), "ITEM_a", 1) = 2000 * Scale
  /\ \A m \in 2..12 : Contribution(("ITEM_a" :> C12_Example), "ITEM_a", m) = 0

C12_Witness ==
  /\ ret.op = "capex.add_item" /\ ret.ok
  /\ \E t, u \in DOMAIN capex_manager.items :
       /\ capex_manager.items[t].month = 6 /\ capex_manager.items[u].month = 12
       /\ capex_manager.items[t].quantity = MaxQuantity

\* C13: for each schedule the all-months operation returns 12 values and its
\* value for month m (list index m - 1) is the single-month operation for m,
\* which is the sum of the per-item value of month m over the stored items.
C13_AllMonths ==
  /\ LET items == capex_manager.items
         all == CapexManager_get_monthly_investments(items)
     IN /\ DOMAIN all = 1..12
        /\ \A m \in 1..12 :
             /\ all[m] = CapexManager_get_monthly_investment(items, m)
             /\ all[m] = Sum([t \in DOMAIN items |->
                                IF items[t].month = m THEN total_value(items[t])
                                ELSE 0], DOMAIN items)
  /\ LET items == opex_manager.items
         all == OpexManager_get_monthly_costs(items)
     IN /\ DOMAIN all = 1..12
        /\ \A m \in 1..12 :
             /\ all[m] = OpexManager_get_monthly_cost(items, m)
             /\ all[m] = Sum([t \in DOMAIN items |-> get_monthly_cost(items[t], m)],
                             DOMAIN items)
  /\ LET items == receitas_manager.items
         all == ReceitasManager_get_monthly_revenues(items)
     IN /\ DOMAIN all = 1..12
        /\ \A m \in 1..12 :
             /\ all[m] = ReceitasManager_get_monthly_revenue(items, m)
             /\ all[m] = Sum([t \in DOMAIN items |->
                                get_monthly_revenue(items[t], m)], DOMAIN items)

C13_Witness ==
  /\ ret.op = "opex.add_item" /\ ret.ok
  /\ \E t, u \in DOMAIN opex_manager.items :
       /\ opex_manager.items[t].start_month = 5 /\ opex_manager.items[t].end_month = 12
       /\ opex_manager.items[u].start_month = 1 /\ opex_manager.items[u].end_month = 3

\* the series of the example: net cash flows -1000, 500, 500, 500 in months 1..4
C14_Example ==
  <<Entry(1, -500, 500), Entry(2, 500, 0), Entry(3, 500, 0), Entry(4, 500, 0)>>

\* C14: calculate_payback returns i + fraction for the first 0-based index i at
\* which the running sum of net_cash_flow is >= 0, with
\* fraction = -previous_cumulative / net_cash_flow[i] and previous_cumulative
\* the running sum before that entry (0 when i = 0); the example gives 3.
\* (value = i + fraction is stated as value x net = i x net - previous.)
C14_PaybackInterpolated ==
  /\ ret.op = "calculate_payback" =>
       \A n \in 1..Len(cash_flows) :
         (/\ Cumulative(cash_flows, n) >= 0
          /\ \A o \in 1..(n - 1) : Cumulative(cash_flows, o) < 0) =>
           LET i == n - 1
               net == cash_flows[n].net_cash_flow
               previous == Cumulative(cash_flows, n - 1)
           IN /\ ret.value.k = "num"
              /\ ret.value.n * net = (i * net - previous) * ret.value.d
  /\ calculate_payback(C14_Example) = Rat(3, 1)

\* C15: calculate_payback returns None if and only if the running sum of
\* net_cash_flow is negative after every entry of the series; otherwise it
\* returns a number.
C15_NotRecovered ==
  ret.op = "calculate_payback" =>
    /\ ret.value = NoneValue <=>
         \A n \in 1..Len(cash_flows) : Cumulative(cash_flows, n) < 0
    /\ ret.value # NoneValue => ret.value.k = "num"

C15_Witness ==
  /\ ret.op = "calculate_payback" /\ ret.value = NoneValue
  /\ Len(cash_flows) >= 3
  /\ \E i \in 1..Len(cash_flows) : cash_flows[i].net_cash_flow > 0

\* C16: calculate_vpl returns the sum over the entries of
\* net_cash_flow / (1 + m)^entry.month with m = (1 + tma/100)^(1/12) - 1: every
\* entry is discounted by its own month field (a single entry of value X at
\* month k gives X / (1 + m)^k).
C16_DiscountByMonth ==
  ret.op = "calculate_vpl" =>
    /\ ret.value.tma = config.tma
    /\ \A p \in 1..12 :
         LET at == {i \in 1..Len(cash_flows) :
                      Power(config.tma, cash_flows[i].month) = p}
         IN ret.value.coef[p] =
              Sum([i \in at |-> cash_flows[i].net_cash_flow], at)

\* C17: for a series whose net cash flows never change sign (all >= 0 or all
\* <= 0) calculate_tir returns None, never a float.
C17_NoSignChange ==
  (/\ ret.op = "calculate_tir"
   /\ \/ \A i \in 1..Len(cash_flows) : cash_flows[i].net_cash_flow >= 0
      \/ \A i \in 1..Len(cash_flows) : cash_flows[i].net_cash_flow <= 0)
    => ret.value = NoneValue

\* C18: calculate_divida_ebitda returns (sum of capex) / (sum of ebitda) when
\* the sum of ebitda is not 0 and None exactly when it is 0; it never divides
\* by 0.
C18_DividaEbitda ==
  ret.op = "calculate_divida_ebitda" =>
    LET idx == 1..Len(cash_flows)
        ebitda == Sum([i \in idx |-> cash_flows[i].ebitda], idx)
        capex == Sum([i \in idx |-> cash_flows[i].capex], idx)
    IN /\ ret.value = NoneValue <=> ebitda = 0
       /\ ebitda # 0 =>
            /\ ret.value.k = "num" /\ ret.value.d # 0
            /\ ret.value.n * ebitda = capex * ret.value.d

C18_Witness ==
  /\ ret.op = "calculate_divida_ebitda" /\ ret.value = NoneValue
  /\ \E i, j \in 1..Len(cash_flows) :
       cash_flows[i].ebitda > 0 /\ cash_flows[j].capex > 0

\* the cash flows of the schedules and the configuration as they are
CurrentCashFlows ==
  calculate_cash_flows(capex_manager, opex_manager, receitas_manager, config)

C20_NeverStale ==
  [][/\ ret'.op = "calculate_all" =>
          LET cf == calculate_cash_flows(capex_manager', opex_manager',
                                         receitas_manager', config')
          IN /\ ret'.ok
             /\ ret'.value = results'
             /\ results'.cash_flows = cf
             /\ results'.tir = calculate_tir(numpy, results'.cash_flows)
             /\ results'.vpl = calculate_vpl(results'.cash_flows, config')
             /\ results'.payback = calculate_payback(results'.cash_flows)
             /\ results'.divida_ebitda =
                  calculate_divida_ebitda(results'.cash_flows)
     /\ ret'.op # "calculate_all" => results' = results
     /\ ret'.op = "format_results" =>
          \A ind \in {"tir", "vpl", "divida_ebitda"} :
            IF results = <<>> \/ results[ind] = NoneValue
              THEN ret'.value[ind] = NA
              ELSE ret'.value[ind] # NA /\ ret'.value[ind].of = results[ind]
     /\ ret'.op = "format_results" =>
          IF results = <<>> \/ results.payback = NoneValue
            THEN ret'.value.payback = NA
            ELSE LET p == results.payback
                     whole == 12 * ret'.value.payback.years
                                + ret'.value.payback.months
                 IN /\ ret'.value.payback.months \in 0..11
                    /\ whole * p.d <= p.n /\ p.n < (whole + 1) * p.d]_vars

C20_Witness ==
  /\ ret.op = "calculate_all" /\ results = ret.value
  /\ results.calculated_at = "t2"
  /\ DOMAIN capex_manager.items # {} /\ DOMAIN opex_manager.items # {}
  /\ DOMAIN receitas_manager.items # {} /\ config.ir > 0
  /\ results.payback # NoneValue

\* C21: calculation is idempotent: of two consecutive calculate_all passes,
\* with no call on a schedule or the configuration between them, the second
\* gives the same 12 cash-flow entries and the same four indicator values as
\* the first (the instant calculated_at aside).
C21_Idempotent ==
  [][(ret.op = "calculate_all" /\ ret'.op = "calculate_all") =>
       /\ Len(results'.cash_flows) = 12
       /\ results'.cash_flows = results.cash_flows
       /\ \A ind \in {"tir", "vpl", "payback", "divida_ebitda"} :
            results'[ind] = results[ind]
       /\ ret'.value.cash_flows = ret.value.cash_flows
       /\ \A ind \in {"tir", "vpl", "payback", "divida_ebitda"} :
            ret'.value[ind] = ret.value[ind]]_vars

C21_Witness ==
  /\ ret.op = "calculate_all" /\ results = ret.value
  /\ DOMAIN capex_manager.items # {} /\ DOMAIN receitas_manager.items # {}
  /\ results.tir.k = "irr" /\ results.payback # NoneValue
  /\ results.divida_ebitda # NoneValue

\* C22: the calculation passes are pure: calculate_all, and in it
\* calculate_cash_flows and the four indicator calculations, leave every
\* schedule (its item map, the fields of its items, its cached aggregate) and
\* the configuration as they were; so does format_results.
C22_PassesPure ==
  [][ret'.op \in {"calculate_all", "format_results", "calculate_cash_flows",
                  "calculate_tir", "calculate_vpl", "calculate_payback",
                  "calculate_divida_ebitda"} =>
       UNCHANGED <<capex_manager, opex_manager, receitas_manager, config>>]_vars

C22_Witness ==
  /\ ret.op = "calculate_all" /\ ret.ok
  /\ DOMAIN capex_manager.items # {} /\ DOMAIN opex_manager.items # {}
  /\ DOMAIN receitas_manager.items # {}
  /\ receitas_manager.total_annual_revenue > 0 /\ config.ir > 0

\* the schedules a pass of SpecPass can read: the expense schedule with and
\* without its item
OpexDuringPass ==
  {[items |-> <<>>, total_annual_cost |-> 0],
   OpexManager_add_item([items |-> <<>>, total_annual_cost |-> 0], Name, Num(1), Num(1), TRUE, Num(6), Num(7), ProjectTag, ProjectTag).manager}

\* C23: a pass over schedules that no call changes while it runs may read its
\* twelve months in any order: the series it returns is the one the
\* sequential calculate_cash_flows gives.  When a call changes a schedule
\* during the pass, each entry is still that of its month for a state the
\* schedules were in, but not all for the same state.
C23_AnyOrder ==
  (ret.op = "calculate_cash_flows" /\ pass.stage = "returned") =>
    /\ DOMAIN ret.value = 1..12
    /\ ~pass.mutated => ret.value = CurrentCashFlows
    /\ pass.mutated =>
         \A month \in 1..12 :
           \E o \in OpexDuringPass :
             ret.value[month] = CashFlowEntry(capex_manager, o, receitas_manager, config, month)

\* a series no single state of the schedules gives
C23_Witness ==
  /\ ret.op = "calculate_cash_flows" /\ pass.stage = "returned"
  /\ pass.mutated
  /\ DOMAIN receitas_manager.items # {}
  /\ \A o \in OpexDuringPass :
       ret.value # calculate_cash_flows(capex_manager, o, receitas_manager, config)

\* C24: every item a schedule holds survives the round trip: from_dict of its
\* to_dict has the same tag, description, quantity, unit_price and the same
\* fields of its flavor (month; flag and window; flag, window and growth
\* rate), the timestamps aside.
C24_RoundTrip ==
  /\ ret.op = "capex.from_dict" =>
       /\ ret.value.tag \in DOMAIN capex_manager.items
       /\ ret.value = capex_manager.items[ret.value.tag]
  /\ ret.op = "opex.from_dict" =>
       /\ ret.value.tag \in DOMAIN opex_manager.items
       /\ ret.value = opex_manager.items[ret.value.tag]
  /\ ret.op = "receitas.from_dict" =>
       /\ ret.value.tag \in DOMAIN receitas_manager.items
       /\ ret.value = receitas_manager.items[ret.value.tag]

\* an item whose window no constructor would give, read back
C24_Witness ==
  /\ ret.op = "opex.from_dict"
  /\ ret.value.end_month < ret.value.start_month
  /\ ~ret.value.recurrent

\* the items with their recurrent flags set as F says
Reflag(items, F) == [t \in DOMAIN items |-> [items[t] EXCEPT !.recurrent = F[t]]]

\* C25: the recurrent flag is inert: whatever the flags of the items of a
\* schedule are set to, the monthly totals, the aggregate _update_total
\* computes and the cash-flow entries (hence the indicators, which are
\* computed from the entries alone) are the same.
C25_RecurrentInert ==
  /\ subject = "opex" =>
       \A F \in [DOMAIN opex_manager.items -> BOOLEAN] :
         LET o == Reflag(opex_manager.items, F)
         IN /\ OpexManager_get_monthly_costs(o) = OpexManager_get_monthly_costs(opex_manager.items)
            /\ OpexManager_update_total(o) = OpexManager_update_total(opex_manager.items)
            /\ calculate_cash_flows(capex_manager, [opex_manager EXCEPT !.items = o], receitas_manager, config) = CurrentCashFlows
  /\ subject = "receitas" =>
       \A F \in [DOMAIN receitas_manager.items -> BOOLEAN] :
         LET r == Reflag(receitas_manager.items, F)
         IN /\ ReceitasManager_get_monthly_revenues(r) = ReceitasManager_get_monthly_revenues(receitas_manager.items)
            /\ ReceitasManager_update_total(r) = ReceitasManager_update_total(receitas_manager.items)
            /\ calculate_cash_flows(capex_manager, opex_manager, [receitas_manager EXCEPT !.items = r], config) = CurrentCashFlows

\* update_item has just cleared the flag of a cost that runs over several
\* months, next to a recurrent one
C25_Witness ==
  /\ ret.op = "opex.update_item" /\ ret.ok
  /\ \E t, u \in DOMAIN opex_manager.items :
       /\ ~opex_manager.items[t].recurrent /\ opex_manager.items[u].recurrent
       /\ opex_manager.items[t].start_month < opex_manager.items[t].end_month
       /\ total_value(opex_manager.items[t]) > 0

C27_TagsStable ==
  [][/\ \A t \in DOMAIN capex_manager.items' : capex_manager.items'[t].tag = t
     /\ \A t \in DOMAIN opex_manager.items' : opex_manager.items'[t].tag = t
     /\ \A t \in DOMAIN receitas_manager.items' : receitas_manager.items'[t].tag = t
     /\ ret'.op \in UpdateOps =>
          /\ DOMAIN capex_manager.items' = DOMAIN capex_manager.items
          /\ DOMAIN opex_manager.items' = DOMAIN opex_manager.items
          /\ DOMAIN receitas_manager.items' = DOMAIN receitas_manager.items]_vars

\* an update_item changed the quantity and the month of one of two items
C27_Witness ==
  /\ ret.op = "capex.update_item" /\ ret.ok
  /\ DOMAIN capex_manager.items = Tags
  /\ \E t \in Tags :
       capex_manager.items[t].quantity = MaxQuantity /\ capex_manager.items[t].month = 12

\* C28: the interpolation of calculate_payback never divides by zero: when
\* the running sum first reaches >= 0 at a 0-based index i > 0, the running sum
\* before that entry is < 0 and the net_cash_flow of the entry is > 0, so that
\* fraction is in (0, 1] and the payback returned is in (i, i + 1].
C28_FractionBounded ==
  ret.op = "calculate_payback" =>
    \A n \in 2..Len(cash_flows) :
      (/\ Cumulative(cash_flows, n) >= 0
       /\ \A o \in 1..(n - 1) : Cumulative(cash_flows, o) < 0) =>
        LET i == n - 1
        IN /\ Cumulative(cash_flows, n - 1) < 0
           /\ cash_flows[n].net_cash_flow > 0
           /\ -Cumulative(cash_flows, n - 1) <= cash_flows[n].net_cash_flow
           /\ ret.value.k = "num" /\ ret.value.d > 0
           /\ i * ret.value.d < ret.value.n
           /\ ret.value.n <= (i + 1) * ret.value.d

\* a payback interpolated inside a month, and one at the end of a month
C28_Witness ==
  /\ ret.op = "calculate_payback" /\ ret.value # NoneValue
  /\ Len(cash_flows) = MaxEntries
  /\ ret.value.d > 1 /\ ret.value.n > 2 * ret.value.d

\* C29: in every reachable state of the investment schedule the 12 values of
\* get_monthly_investments() add up to total_investment.
C29_InvestmentsConserved ==
  subject = "capex" =>
    Sum(CapexManager_get_monthly_investments(capex_manager.items), 1..12)
      = capex_manager.total_investment

\* C30: Config.update keeps tma, ir and csll within [0, 100], and an update
\* that returns failure leaves all three as they were before the call, the
\* valid values supplied ahead of the rejected one included.
C30_ConfigUpdateAtomic ==
  [][/\ \A rate \in {"tma", "ir", "csll"} : ~OutOfRange(config'[rate])
     /\ (ret'.op = "config.update" /\ ~ret'.ok) => config' = config]_vars
====
